---- MODULE Spec2Model ----
(***************************************************************************)
(* Model of the Setter layer of crates/comfyui-api (comfy/setter.rs): the  *)
(* typed mutation of one field of one node of a workflow graph (Prompt).   *)
(*                                                                         *)
(* A Prompt is an ordered map from node id to node; it is modelled as the  *)
(* sequence of its nodes in insertion order, each node carrying its id.    *)
(* Option<T> is modelled as a sequence: <<>> is None, <<x>> is Some(x).    *)
(* anyhow::Result<()> is modelled by the field res ("Ok" / "Err") and the  *)
(* outermost error message err; a panic (unwrap on a missing value) is     *)
(* the third outcome "Panic".                                              *)
(***************************************************************************)
EXTENDS Integers, Sequences, FiniteSets, TLC

VARIABLES prompt, result

vars == <<prompt, result>>

(* ---------------------------- bounds ----------------------------------- *)

\* Widths and heights carried by a SizeSetter are 0..MaxDim (u32, 0 allowed).
MaxDim == 1
\* Seeds carried by the seed setters are 0..MaxSeed.
MaxSeed == 1

\* The node ids of the graphs; NoSuchId is an id that is a key of no graph.
NodeIds == {1, 2, 3}
NoSuchId == Cardinality(NodeIds) + 1
IdArgs == {NoSuchId} \cup NodeIds

Texts == {"cat", "dog"}
Models == {"sd15", "sdxl"}
Dims == 0..MaxDim
Seeds == 0..MaxSeed

\* The value a populated field holds in a graph as it is handed to the setters.
InitText == "cat"
InitModel == "sd15"
InitDim == MaxDim + 1
InitSeed == MaxSeed

(* ------------------------- typed node variants ------------------------- *)

Kinds == {"KSampler", "SamplerCustom", "CLIPTextEncode",
          "CheckpointLoaderSimple", "EmptyLatentImage"}

None == <<>>
Some(x) == <<x>>

\* A node of every kind is a record of the same shape; a field that the kind
\* does not have is None and is never read or written through a cast.
BlankNode(id, kind) ==
    [id |-> id, class_type |-> kind,
     text |-> None, ckpt_name |-> None, width |-> None, height |-> None,
     seed |-> None, noise_seed |-> None, positive |-> None, negative |-> None]

\* Every node of a kind of `kinds` a graph may hold under id `id`: each value
\* field unset or populated, each link naming the id of another node (or an id
\* that is no key of the graph, when the graph is shorter).
NodesOf(id, kinds) ==
    LET others == NodeIds \ {id}
        all ==
            { [BlankNode(id, "CLIPTextEncode") EXCEPT !.text = t] :
                t \in {None, Some(InitText)} }
            \cup
            { [BlankNode(id, "CheckpointLoaderSimple") EXCEPT !.ckpt_name = c] :
                c \in {None, Some(InitModel)} }
            \cup
            { [BlankNode(id, "EmptyLatentImage") EXCEPT !.width = w, !.height = h] :
                w \in {None, Some(InitDim)}, h \in {None, Some(InitDim)} }
            \cup
            { [BlankNode(id, "KSampler") EXCEPT
                  !.seed = s, !.positive = Some(p), !.negative = Some(n)] :
                s \in {None, Some(InitSeed)}, p \in others, n \in others }
            \cup
            { [BlankNode(id, "SamplerCustom") EXCEPT
                  !.noise_seed = s, !.positive = Some(p), !.negative = Some(n)] :
                s \in {None, Some(InitSeed)}, p \in others, n \in others }
    IN  { nd \in all : nd.class_type \in kinds }

(* ------------------------------ graph model ---------------------------- *)

\* The positions (in insertion order) of the nodes stored under id `id`.
PositionsOf(g, id) == { i \in 1..Len(g) : g[i].id = id }

\* Prompt::get_node_by_id_mut: the node stored under `id`, as its position in
\* the graph, or None when `id` is no key of the graph.
get_node_by_id_mut(g, id) ==
    IF PositionsOf(g, id) = {} THEN None
    ELSE Some(CHOOSE i \in PositionsOf(g, id) : TRUE)

\* as_node_mut::<K>: the checked downcast succeeds exactly when the node's
\* stored kind is K.
as_node_mut(kind, node) == node.class_type = kind

\* Prompt::get_node::<K>(id): typed read access, a lookup followed by the
\* checked downcast.
get_node(kind, g, id) ==
    LET m == get_node_by_id_mut(g, id)
    IN  IF m = None THEN None
        ELSE IF as_node_mut(kind, g[m[1]]) THEN m ELSE None

\* The ids of the nodes of kind `kind`, in insertion order.
RECURSIVE IdsOfKind(_, _)
IdsOfKind(kind, g) ==
    IF g = <<>> THEN <<>>
    ELSE IF Head(g).class_type = kind
         THEN <<Head(g).id>> \o IdsOfKind(kind, Tail(g))
         ELSE IdsOfKind(kind, Tail(g))

\* getter::find_node::<K>(prompt, output_node). Without an anchor: scan the
\* nodes in insertion order and return the id of the node of kind K when there
\* is exactly one. With an anchor: the anchor itself when it is a node of
\* kind K.
find_node(kind, g, output_node) ==
    IF output_node = None
    THEN LET ids == IdsOfKind(kind, g)
         IN  IF Len(ids) = 1 THEN Some(ids[1]) ELSE None
    ELSE IF get_node(kind, g, output_node[1]) # None
         THEN output_node ELSE None

\* getter::guess_node::<K>(prompt, None): the node the unanchored query
\* resolves to, as a mutable reference (its position), or None.
guess_node(kind, g, output_node) ==
    LET f == find_node(kind, g, output_node)
    IN  IF f = None THEN None ELSE get_node_by_id_mut(g, f[1])

(* ------------------------------- results ------------------------------- *)

\* The outcome of a call: res, the graph (or node) it leaves, the outermost
\* error message, and for a DelegatingSetter the delegates it ran, in order,
\* each with its outcome.
NodeOk(node) == [res |-> "Ok", node |-> node, err |-> "", tried |-> <<>>]
NodeErr(node, msg) == [res |-> "Err", node |-> node, err |-> msg, tried |-> <<>>]

Ok(g) == [res |-> "Ok", prompt |-> g, err |-> "", tried |-> <<>>]
Err(g, msg) == [res |-> "Err", prompt |-> g, err |-> msg, tried |-> <<>>]
Panic(g) == [res |-> "Panic", prompt |-> g, err |-> "unwrap on None", tried |-> <<>>]

\* Result::context(msg): a failure gets msg as its outermost message.
context(r, msg) == IF r.res = "Err" THEN [r EXCEPT !.err = msg] ELSE r

\* A composition that runs the second delegate whatever the first returned.
Mutant_OrElse(r1, r2) ==
    [context(r2, "Failed to set value") EXCEPT
        !.tried = <<[delegate |-> 1, res |-> r1.res],
                    [delegate |-> 2, res |-> r2.res]>>]

\* Result::or_else of the DelegatingSetter: r1 is the first delegate's
\* outcome, r2 the second delegate's on the graph (or node) the first one
\* left; the second delegate runs only when the first one failed, and its
\* failure gets the context "Failed to set value". A panic of the first
\* delegate unwinds through the caller.
OrElse(r1, r2) ==
    IF r1.res # "Err" THEN [r1 EXCEPT !.tried = <<[delegate |-> 1, res |-> r1.res]>>]
    ELSE [context(r2, "Failed to set value") EXCEPT
             !.tried = <<[delegate |-> 1, res |-> r1.res],
                         [delegate |-> 2, res |-> r2.res]>>]

(* ------------------------------ set_value ------------------------------ *)

Setters == {"PromptSetter", "NegativePromptSetter", "ModelSetter", "SizeSetter",
            "SeedSetterT_KSampler", "SeedSetterT_SamplerCustom", "SeedSetter"}

\* The values a setter may carry.
ValuesOf(S) ==
    CASE S \in {"PromptSetter", "NegativePromptSetter"} -> Texts
      [] S = "ModelSetter" -> Models
      [] S = "SizeSetter" -> Dims \X Dims
      [] OTHER -> Seeds

\* The node kind N of `impl Setter<T, N> for S`.
TargetKind(S) ==
    CASE S \in {"PromptSetter", "NegativePromptSetter"} -> "CLIPTextEncode"
      [] S = "ModelSetter" -> "CheckpointLoaderSimple"
      [] S = "SizeSetter" -> "EmptyLatentImage"
      [] S = "SeedSetterT_SamplerCustom" -> "SamplerCustom"
      [] OTHER -> "KSampler"

\* A write that appends to the stored text instead of replacing it.
Mutant_PromptSetter_set_value(v, node) ==
    IF ~as_node_mut("CLIPTextEncode", node) THEN NodeErr(node, "Failed to cast node")
    ELSE IF node.text = None THEN NodeErr(node, "Failed to get text value")
    ELSE NodeOk([node EXCEPT !.text = Some(node.text[1] \o v)])

PromptSetter_set_value(v, node) ==
    IF ~as_node_mut("CLIPTextEncode", node) THEN NodeErr(node, "Failed to cast node")
    ELSE IF node.text = None THEN NodeErr(node, "Failed to get text value")
    ELSE NodeOk([node EXCEPT !.text = Some(v)])

NegativePromptSetter_set_value(v, node) == PromptSetter_set_value(v, node)

ModelSetter_set_value(v, node) ==
    IF ~as_node_mut("CheckpointLoaderSimple", node)
    THEN NodeErr(node, "Failed to cast node")
    ELSE IF node.ckpt_name = None THEN NodeErr(node, "Failed to get ckpt_name value")
    ELSE NodeOk([node EXCEPT !.ckpt_name = Some(v)])

\* A SizeSetter that writes both dimensions whatever their value.
Mutant_SizeSetter_set_value(v, node) ==
    IF ~as_node_mut("EmptyLatentImage", node) THEN NodeErr(node, "Failed to cast node")
    ELSE IF node.width = None THEN NodeErr(node, "Failed to get width value")
    ELSE IF node.height = None
         THEN NodeErr([node EXCEPT !.width = Some(v[1])], "Failed to get height value")
         ELSE NodeOk([node EXCEPT !.width = Some(v[1]), !.height = Some(v[2])])

\* v = <<width, height>>; the width is written before the height is looked at.
SizeSetter_set_value(v, node) ==
    LET w == v[1]
        h == v[2]
        afterW ==
            IF w > 0
            THEN IF ~as_node_mut("EmptyLatentImage", node)
                 THEN NodeErr(node, "Failed to cast node")
                 ELSE IF node.width = None
                      THEN NodeErr(node, "Failed to get width value")
                      ELSE NodeOk([node EXCEPT !.width = Some(w)])
            ELSE NodeOk(node)
    IN  IF afterW.res = "Err" THEN afterW
        ELSE IF h > 0
             THEN IF ~as_node_mut("EmptyLatentImage", afterW.node)
                  THEN NodeErr(afterW.node, "Failed to cast node")
                  ELSE IF afterW.node.height = None
                       THEN NodeErr(afterW.node, "Failed to get height value")
                       ELSE NodeOk([afterW.node EXCEPT !.height = Some(h)])
             ELSE NodeOk(afterW.node)

\* A write that populates the seed of a KSampler that has none.
Mutant_SeedSetterT_KSampler_set_value(v, node) ==
    IF ~as_node_mut("KSampler", node) THEN NodeErr(node, "Failed to cast node")
    ELSE NodeOk([node EXCEPT !.seed = Some(v)])

SeedSetterT_KSampler_set_value(v, node) ==
    IF ~as_node_mut("KSampler", node) THEN NodeErr(node, "Failed to cast node")
    ELSE IF node.seed = None THEN NodeErr(node, "Failed to get seed value")
    ELSE NodeOk([node EXCEPT !.seed = Some(v)])

SeedSetterT_SamplerCustom_set_value(v, node) ==
    IF ~as_node_mut("SamplerCustom", node) THEN NodeErr(node, "Failed to cast node")
    ELSE IF node.noise_seed = None THEN NodeErr(node, "Failed to get seed value")
    ELSE NodeOk([node EXCEPT !.noise_seed = Some(v)])

\* DelegatingSetter::set_value: the second delegate runs on the node the
\* first one left.
DelegatingSetter_set_value(v, node) ==
    LET r1 == SeedSetterT_KSampler_set_value(v, node)
    IN  OrElse(r1, SeedSetterT_SamplerCustom_set_value(v, r1.node))

\* Self::set_value of setter S.
set_value(S, v, node) ==
    CASE S = "PromptSetter" -> PromptSetter_set_value(v, node)
      [] S = "NegativePromptSetter" -> NegativePromptSetter_set_value(v, node)
      [] S = "ModelSetter" -> ModelSetter_set_value(v, node)
      [] S = "SizeSetter" -> SizeSetter_set_value(v, node)
      [] S = "SeedSetterT_KSampler" -> SeedSetterT_KSampler_set_value(v, node)
      [] S = "SeedSetterT_SamplerCustom" -> SeedSetterT_SamplerCustom_set_value(v, node)
      [] OTHER -> DelegatingSetter_set_value(v, node)

\* self.set_value(node) on the node at position i of the graph: the graph
\* holds whatever set_value left in the node, also when it failed.
SetValueAt(S, v, g, i) ==
    LET r == set_value(S, v, g[i])
    IN  [res |-> r.res, prompt |-> [g EXCEPT ![i] = r.node], err |-> r.err,
         tried |-> r.tried]

(* ------------------------------ find_node ------------------------------ *)

\* The id a required link field holds (node.positive.node_id).
node_id(link) == link[1]

\* A PromptSetter::find_node that follows the negative link.
Mutant_PromptSetter_find_node(g, output_node) ==
    LET k == find_node("KSampler", g, output_node)
        c == find_node("SamplerCustom", g, output_node)
    IN  IF k # None /\ get_node("KSampler", g, k[1]) # None
        THEN Some(node_id(g[get_node("KSampler", g, k[1])[1]].negative))
        ELSE IF c # None /\ get_node("SamplerCustom", g, c[1]) # None
             THEN Some(node_id(g[get_node("SamplerCustom", g, c[1])[1]].negative))
             ELSE None

\* PromptSetter::find_node: the positive link of the KSampler the query
\* resolves to, else of the SamplerCustom it resolves to.
PromptSetter_find_node(g, output_node) ==
    LET k == find_node("KSampler", g, output_node)
        c == find_node("SamplerCustom", g, output_node)
    IN  IF k # None /\ get_node("KSampler", g, k[1]) # None
        THEN Some(node_id(g[get_node("KSampler", g, k[1])[1]].positive))
        ELSE IF c # None /\ get_node("SamplerCustom", g, c[1]) # None
             THEN Some(node_id(g[get_node("SamplerCustom", g, c[1])[1]].positive))
             ELSE None

\* A NegativePromptSetter::find_node that follows the positive link.
Mutant_NegativePromptSetter_find_node(g, output_node) ==
    LET k == find_node("KSampler", g, output_node)
        c == find_node("SamplerCustom", g, output_node)
    IN  IF k # None /\ get_node("KSampler", g, k[1]) # None
        THEN Some(node_id(g[get_node("KSampler", g, k[1])[1]].positive))
        ELSE IF c # None /\ get_node("SamplerCustom", g, c[1]) # None
             THEN Some(node_id(g[get_node("SamplerCustom", g, c[1])[1]].positive))
             ELSE None

\* NegativePromptSetter::find_node: the same through the negative link.
NegativePromptSetter_find_node(g, output_node) ==
    LET k == find_node("KSampler", g, output_node)
        c == find_node("SamplerCustom", g, output_node)
    IN  IF k # None /\ get_node("KSampler", g, k[1]) # None
        THEN Some(node_id(g[get_node("KSampler", g, k[1])[1]].negative))
        ELSE IF c # None /\ get_node("SamplerCustom", g, c[1]) # None
             THEN Some(node_id(g[get_node("SamplerCustom", g, c[1])[1]].negative))
             ELSE None

\* DelegatingSetter::find_node.
DelegatingSetter_find_node(g, output_node) ==
    LET k == find_node("KSampler", g, output_node)
    IN  IF k # None THEN k ELSE find_node("SamplerCustom", g, output_node)

\* Self::find_node of setter S: the overrides above, else the trait's default.
Self_find_node(S, g, output_node) ==
    CASE S = "PromptSetter" -> PromptSetter_find_node(g, output_node)
      [] S = "NegativePromptSetter" -> NegativePromptSetter_find_node(g, output_node)
      [] S = "SeedSetter" -> DelegatingSetter_find_node(g, output_node)
      [] OTHER -> find_node(TargetKind(S), g, output_node)

(* ---------------------- set, set_from, set_node ------------------------ *)

\* Setter::set (the trait's default): guess_node::<N>(prompt, None), then
\* set_value.
Setter_set(S, v, g) ==
    LET n == guess_node(TargetKind(S), g, None)
    IN  IF n = None THEN Err(g, "Failed to find node")
        ELSE SetValueAt(S, v, g, n[1])

\* Setter::set_from (the trait's default): Self::find_node from the anchor,
\* then the lookup of the id it returned, then set_value.
Setter_set_from(S, v, g, output_node) ==
    LET f == Self_find_node(S, g, Some(output_node))
    IN  IF f = None THEN Err(g, "Failed to find node")
        ELSE LET n == get_node_by_id_mut(g, f[1])
             IN  IF n = None THEN Err(g, "Failed to find node")
                 ELSE SetValueAt(S, v, g, n[1])

\* Setter::set_node (the trait's default): the lookup is unwrapped.
Setter_set_node(S, v, g, node) ==
    LET n == get_node_by_id_mut(g, node)
    IN  IF n = None THEN Panic(g)
        ELSE SetValueAt(S, v, g, n[1])

\* A DelegatingSetter::set without the fallback to the second delegate.
Mutant_DelegatingSetter_set(v, g) ==
    LET r1 == Setter_set("SeedSetterT_KSampler", v, g)
    IN  [context(r1, "Failed to set value") EXCEPT
            !.tried = <<[delegate |-> 1, res |-> r1.res]>>]

\* DelegatingSetter::set, set_from, set_node: the second delegate runs on the
\* graph the first one left, with the same value.
DelegatingSetter_set(v, g) ==
    LET r1 == Setter_set("SeedSetterT_KSampler", v, g)
    IN  OrElse(r1, Setter_set("SeedSetterT_SamplerCustom", v, r1.prompt))

DelegatingSetter_set_from(v, g, output_node) ==
    LET r1 == Setter_set_from("SeedSetterT_KSampler", v, g, output_node)
    IN  OrElse(r1, Setter_set_from("SeedSetterT_SamplerCustom", v, r1.prompt, output_node))

DelegatingSetter_set_node(v, g, node) ==
    LET r1 == Setter_set_node("SeedSetterT_KSampler", v, g, node)
    IN  OrElse(r1, Setter_set_node("SeedSetterT_SamplerCustom", v, r1.prompt, node))

\* S::from(value).set(prompt), .set_from(prompt, output_node),
\* .set_node(prompt, node) for every setter S.
set(S, v, g) ==
    IF S = "SeedSetter" THEN DelegatingSetter_set(v, g) ELSE Setter_set(S, v, g)

set_from(S, v, g, output_node) ==
    IF S = "SeedSetter" THEN DelegatingSetter_set_from(v, g, output_node)
    ELSE Setter_set_from(S, v, g, output_node)

set_node(S, v, g, node) ==
    IF S = "SeedSetter" THEN DelegatingSetter_set_node(v, g, node)
    ELSE Setter_set_node(S, v, g, node)

(* ---------------------------- state machine ---------------------------- *)

\* Every graph of n nodes of the kinds `kinds`; the node inserted i-th has
\* id i.
RECURSIVE GraphsOfLen(_, _)
GraphsOfLen(n, kinds) ==
    IF n = 0 THEN {<<>>}
    ELSE { Append(g, nd) : g \in GraphsOfLen(n - 1, kinds), nd \in NodesOf(n, kinds) }

Samplers == {"KSampler", "SamplerCustom"}

\* The graphs of at most two nodes, of every kind.
SmallGraphs == GraphsOfLen(0, Kinds) \cup GraphsOfLen(1, Kinds) \cup GraphsOfLen(2, Kinds)

\* The nodes of a graph that hold a seed (seed or noise_seed populated).
Seeded(g) == { i \in 1..Len(g) : g[i].seed # None \/ g[i].noise_seed # None }

\* The graphs of three nodes that are text encoders and samplers without a
\* seed, with a text encoder among them.
ConditioningGraphs ==
    { g \in GraphsOfLen(3, Samplers \cup {"CLIPTextEncode"}) :
        /\ \E i \in 1..3 : g[i].class_type = "CLIPTextEncode"
        /\ Seeded(g) = {} }

\* The graphs of three samplers, each taking both conditionings from the node
\* inserted after it (the last one from the first).
SamplerGraphs ==
    { g \in GraphsOfLen(3, Samplers) :
        \A i \in 1..3 : g[i].positive = Some((i % 3) + 1) /\ g[i].negative = Some((i % 3) + 1) }

Graphs == SmallGraphs \cup ConditioningGraphs \cup SamplerGraphs

Init ==
    /\ prompt \in Graphs
    /\ result = "New"

\* A panic ends the process: no call follows it.
Running == result # "Panic"

Set(S, v) ==
    /\ Running
    /\ LET r == set(S, v, prompt)
       IN  prompt' = r.prompt /\ result' = r.res

SetFrom(S, v, output_node) ==
    /\ Running
    /\ LET r == set_from(S, v, prompt, output_node)
       IN  prompt' = r.prompt /\ result' = r.res

SetNode(S, v, node) ==
    /\ Running
    /\ LET r == set_node(S, v, prompt, node)
       IN  prompt' = r.prompt /\ result' = r.res

\* set_value called directly on a node of the graph.
SetValue(S, v, node) ==
    /\ Running
    /\ get_node_by_id_mut(prompt, node) # None
    /\ LET r == SetValueAt(S, v, prompt, get_node_by_id_mut(prompt, node)[1])
       IN  prompt' = r.prompt /\ result' = r.res

Next ==
    \E S \in Setters : \E v \in ValuesOf(S) :
        \/ Set(S, v)
        \/ \E a \in IdArgs : SetFrom(S, v, a)
        \/ \E a \in IdArgs : SetNode(S, v, a)
        \/ \E a \in IdArgs : SetValue(S, v, a)

Spec == Init /\ [][Next]_vars

(* ----------------------------- properties ------------------------------ *)

Modes == {"set", "set_from", "set_node"}

\* The anchor or node id a call of mode m takes (set takes none).
ArgsOf(m) == IF m = "set" THEN {NoSuchId} ELSE IdArgs

\* The call of mode m of setter S carrying v on graph g.
Call(S, v, m, a, g) ==
    CASE m = "set" -> set(S, v, g)
      [] m = "set_from" -> set_from(S, v, g, a)
      [] OTHER -> set_node(S, v, g, a)

\* The kinds of node a setter writes to: its target kind, and for the composed
\* SeedSetter the target kinds of both delegates.
TargetKinds(S) ==
    IF S = "SeedSetter" THEN {"KSampler", "SamplerCustom"} ELSE {TargetKind(S)}

HasId(g, id) == get_node_by_id_mut(g, id) # None
NodeAt(g, id) == g[get_node_by_id_mut(g, id)[1]]

\* C1: whenever set, set_from or set_node of any setter returns a failure,
\* the graph is exactly as it was before the call (no partial write); in
\* particular a SizeSetter with width > 0 and height > 0 that fails on an
\* EmptyLatentImage whose height is unset leaves the width unchanged.
C1_NoEffectOnFailure ==
    \A S \in Setters : \A v \in ValuesOf(S) : \A m \in Modes : \A a \in ArgsOf(m) :
        LET r == Call(S, v, m, a, prompt)
        IN  r.res = "Err" => r.prompt = prompt

\* C2: set_node with a node id that is no key of the graph returns a failure
\* to the caller and leaves the graph unchanged, for every setter, the
\* composed SeedSetter included; it never panics.
C2_AbsentIdFails ==
    \A S \in Setters : \A v \in ValuesOf(S) : \A a \in IdArgs :
        ~HasId(prompt, a) =>
            LET r == set_node(S, v, prompt, a)
            IN  r.res = "Err" /\ r.prompt = prompt

\* C3: set_node with the id of an existing node whose kind is not the kind
\* the setter targets returns a failure and leaves the graph unchanged, for
\* every carried value, a SizeSetter carrying a zero width or height included.
C3_KindMismatchFails ==
    \A S \in Setters : \A v \in ValuesOf(S) : \A a \in IdArgs :
        (HasId(prompt, a) /\ NodeAt(prompt, a).class_type \notin TargetKinds(S)) =>
            LET r == set_node(S, v, prompt, a)
            IN  r.res = "Err" /\ r.prompt = prompt

\* Node id `t` is a key of g and names a CLIPTextEncode node.
IsText(g, t) == HasId(g, t) /\ NodeAt(g, t).class_type = "CLIPTextEncode"

\* The ids of the sampler nodes (KSampler or SamplerCustom) of g.
SamplerIds(g) == { g[i].id : i \in { j \in 1..Len(g) : g[j].class_type \in Samplers } }

\* The sampler nodes of g whose positive and negative links name two
\* different text nodes.
SplitSamplers(g) ==
    { s \in SamplerIds(g) :
        /\ IsText(g, node_id(NodeAt(g, s).positive))
        /\ IsText(g, node_id(NodeAt(g, s).negative))
        /\ node_id(NodeAt(g, s).positive) # node_id(NodeAt(g, s).negative) }

\* C4: non-interference. For a sampler S whose positive link names text node
\* P and whose negative link names a different text node N, the
\* NegativePromptSetter applied through set, or through set_from anchored at
\* S, never changes the text of P.
C4_NonInterference ==
    \A s \in SplitSamplers(prompt) : \A v \in Texts :
        LET P == node_id(NodeAt(prompt, s).positive)
            r1 == set("NegativePromptSetter", v, prompt)
            r2 == set_from("NegativePromptSetter", v, prompt, s)
        IN  /\ NodeAt(r1.prompt, P).text = NodeAt(prompt, P).text
            /\ NodeAt(r2.prompt, P).text = NodeAt(prompt, P).text

\* A text other than InitText can only have been written by a setter: the
\* negative text node of a sampler holds one after a successful call, while
\* the positive text node still holds the text it was built with.
C4_Witness ==
    /\ result = "Ok"
    /\ \E s \in SplitSamplers(prompt) :
          /\ NodeAt(prompt, node_id(NodeAt(prompt, s).negative)).text = Some("dog")
          /\ NodeAt(prompt, node_id(NodeAt(prompt, s).positive)).text = Some(InitText)
          /\ set_from("NegativePromptSetter", "dog", prompt, s).prompt = prompt

\* The sampler nodes of g whose positive link names a text node with a
\* populated text.
PositiveSamplers(g) ==
    { s \in SamplerIds(g) :
        /\ IsText(g, node_id(NodeAt(g, s).positive))
        /\ NodeAt(g, node_id(NodeAt(g, s).positive)).text # None }

\* Graph g with the text of the node of id `t` replaced by v, and nothing else.
WithText(g, t, v) == [g EXCEPT ![get_node_by_id_mut(g, t)[1]].text = Some(v)]

\* C5: anchored correctness. For a sampler S whose positive link names text
\* node T (text populated), PromptSetter.set_from(graph, S) succeeds and
\* writes the carried text into T and into no other node, whatever other
\* nodes the graph holds and in whatever order.
C5_AnchoredCorrectness ==
    \A s \in PositiveSamplers(prompt) : \A v \in Texts :
        LET T == node_id(NodeAt(prompt, s).positive)
            r == set_from("PromptSetter", v, prompt, s)
        IN  r.res = "Ok" /\ r.prompt = WithText(prompt, T, v)

\* A sampler whose positive text node holds a written text while another
\* text node of the graph still holds its own.
C5_Witness ==
    /\ result = "Ok"
    /\ \E s \in PositiveSamplers(prompt) :
          /\ NodeAt(prompt, node_id(NodeAt(prompt, s).positive)).text = Some("dog")
          /\ \E t \in NodeIds :
                /\ t # node_id(NodeAt(prompt, s).positive)
                /\ IsText(prompt, t)
                /\ NodeAt(prompt, t).text = Some(InitText)
          /\ set_from("PromptSetter", "dog", prompt, s).prompt = prompt

\* C6: unanchored positive-text apply. In a graph with exactly one sampler
\* S, whose positive link names text node T (text populated),
\* PromptSetter.set(graph) writes the carried text into T and into no other
\* node.
C6_UnanchoredPositive ==
    \A s \in PositiveSamplers(prompt) : \A v \in Texts :
        SamplerIds(prompt) = {s} =>
            LET T == node_id(NodeAt(prompt, s).positive)
                r == set("PromptSetter", v, prompt)
            IN  r.res = "Ok" /\ r.prompt = WithText(prompt, T, v)

\* The SamplerCustom nodes of g with a populated noise_seed, by id.
SeededCustomIds(g) ==
    { g[i].id : i \in { j \in 1..Len(g) :
        g[j].class_type = "SamplerCustom" /\ g[j].noise_seed # None } }

\* The second half of C7: without KSampler and SamplerCustom, SeedSetter.set
\* fails with "Failed to set value" and the graph is unchanged.
C7_NeitherFails(v) ==
    (IdsOfKind("KSampler", prompt) = <<>> /\ IdsOfKind("SamplerCustom", prompt) = <<>>) =>
        LET r == set("SeedSetter", v, prompt)
        IN  r.res = "Err" /\ r.err = "Failed to set value" /\ r.prompt = prompt

\* C7 as stated: in every graph that contains a SamplerCustom node with a
\* populated noise_seed and no KSampler node, SeedSetter.set succeeds and the
\* SamplerCustom node's noise_seed is the carried seed afterwards; in every
\* graph with neither sampler kind it fails with "Failed to set value" and
\* the graph is unchanged.
C7_Original ==
    \A v \in Seeds :
        /\ \A c \in SeededCustomIds(prompt) :
              IdsOfKind("KSampler", prompt) = <<>> =>
                  LET r == set("SeedSetter", v, prompt)
                  IN  r.res = "Ok" /\ NodeAt(r.prompt, c).noise_seed = Some(v)
        /\ C7_NeitherFails(v)

\* C7 (amended): delegation fallback. In a graph with no KSampler and exactly
\* one SamplerCustom, whose noise_seed is populated, SeedSetter.set succeeds
\* and that node's noise_seed is the carried seed afterwards, nothing else
\* having changed; in a graph with neither a KSampler nor a SamplerCustom,
\* SeedSetter.set fails with "Failed to set value" and the graph is unchanged.
C7_DelegationFallback ==
    \A v \in Seeds :
        /\ \A c \in SeededCustomIds(prompt) :
              (IdsOfKind("KSampler", prompt) = <<>>
                  /\ Len(IdsOfKind("SamplerCustom", prompt)) = 1) =>
                  LET r == set("SeedSetter", v, prompt)
                  IN  /\ r.res = "Ok"
                      /\ r.prompt = [prompt EXCEPT
                            ![get_node_by_id_mut(prompt, c)[1]].noise_seed = Some(v)]
        /\ C7_NeitherFails(v)

\* A graph without KSampler whose only SamplerCustom holds a seed other than
\* the one it was built with, after a successful call.
C7_Witness ==
    /\ result = "Ok"
    /\ IdsOfKind("KSampler", prompt) = <<>>
    /\ Len(IdsOfKind("SamplerCustom", prompt)) = 1
    /\ \E v \in Seeds \ {InitSeed} :
          /\ NodeAt(prompt, IdsOfKind("SamplerCustom", prompt)[1]).noise_seed = Some(v)
          /\ set("SeedSetter", v, prompt).prompt = prompt
          /\ set("SeedSetter", v, prompt).tried =
                <<[delegate |-> 1, res |-> "Err"], [delegate |-> 2, res |-> "Ok"]>>

\* The number of fields in which two nodes differ.
FieldNames == {"id", "class_type", "text", "ckpt_name", "width", "height",
               "seed", "noise_seed", "positive", "negative"}
ChangedFields(g, h) ==
    { <<i, f>> \in (1..Len(g)) \X FieldNames : g[i][f] # h[i][f] }

\* The outcomes of the DelegatingSetter's four operations on graph g.
DelegatingCalls(v, g) ==
    {set("SeedSetter", v, g)}
    \cup { set_from("SeedSetter", v, g, a) : a \in IdArgs }
    \cup { set_node("SeedSetter", v, g, a) : a \in IdArgs }
    \cup { SetValueAt("SeedSetter", v, g, i) : i \in 1..Len(g) }

\* The general half of C8: the first delegate runs first, the second only
\* after the first has returned a failure, and at most one write takes effect.
C8_OneDelegateWrites(v) ==
    \A r \in DelegatingCalls(v, prompt) :
        /\ Len(r.tried) \in {1, 2}
        /\ r.tried[1].delegate = 1
        /\ Len(r.tried) = 2 => (r.tried[1].res = "Err" /\ r.tried[2].delegate = 2)
        /\ Len(r.prompt) = Len(prompt)
        /\ Cardinality(ChangedFields(prompt, r.prompt)) <= 1

\* The KSampler nodes of g with a populated seed, by id.
SeededKSamplerIds(g) ==
    { g[i].id : i \in { j \in 1..Len(g) :
        g[j].class_type = "KSampler" /\ g[j].seed # None } }

\* A successful SeedSetter.set on the graph writes the seed of KSampler k and
\* leaves the noise_seed of every SamplerCustom unchanged.
C8_WritesKSampler(v, k) ==
    LET r == set("SeedSetter", v, prompt)
    IN  r.res = "Ok" =>
            /\ NodeAt(r.prompt, k).seed = Some(v)
            /\ \A c \in SeededCustomIds(prompt) :
                  NodeAt(r.prompt, c).noise_seed = NodeAt(prompt, c).noise_seed

\* C8 as stated: first success wins in every call of the DelegatingSetter's
\* set, set_from, set_node and set_value; in every graph holding a KSampler
\* with a populated seed and a SamplerCustom with a populated noise_seed, a
\* successful SeedSetter.set writes the KSampler's seed and leaves the
\* SamplerCustom's noise_seed unchanged.
C8_Original ==
    \A v \in Seeds :
        /\ C8_OneDelegateWrites(v)
        /\ SeededCustomIds(prompt) # {} =>
              \A k \in SeededKSamplerIds(prompt) : C8_WritesKSampler(v, k)

\* C8 (amended): first success wins. In every call of the DelegatingSetter's
\* set, set_from, set_node and set_value the first delegate runs first, the
\* second delegate runs only after the first has returned a failure, and at
\* most one write takes effect; in a graph holding exactly one KSampler, with
\* a populated seed, and a SamplerCustom with a populated noise_seed, a
\* successful SeedSetter.set writes the KSampler's seed and leaves the
\* SamplerCustom's noise_seed unchanged.
C8_FirstSuccessWins ==
    \A v \in Seeds :
        /\ C8_OneDelegateWrites(v)
        /\ (SeededCustomIds(prompt) # {} /\ Len(IdsOfKind("KSampler", prompt)) = 1) =>
              \A k \in SeededKSamplerIds(prompt) : C8_WritesKSampler(v, k)

\* A KSampler holding a written seed next to a SamplerCustom that still holds
\* the seed it was built with, after a successful call.
C8_Witness ==
    /\ result = "Ok"
    /\ Len(IdsOfKind("KSampler", prompt)) = 1
    /\ \E v \in Seeds \ {InitSeed} :
          /\ NodeAt(prompt, IdsOfKind("KSampler", prompt)[1]).seed = Some(v)
          /\ set("SeedSetter", v, prompt).prompt = prompt
          /\ set("SeedSetter", v, prompt).tried = <<[delegate |-> 1, res |-> "Ok"]>>
    /\ \E c \in SeededCustomIds(prompt) : NodeAt(prompt, c).noise_seed = Some(InitSeed)

\* The ids of the EmptyLatentImage nodes of g with both dimensions populated.
SizedIds(g) ==
    { g[i].id : i \in { j \in 1..Len(g) :
        /\ g[j].class_type = "EmptyLatentImage"
        /\ g[j].width # None
        /\ g[j].height # None } }

\* The outcomes of applying a SizeSetter carrying v to the node of id `a`:
\* by id, anchored at the node, and unanchored when the graph has no other
\* EmptyLatentImage.
SizeCalls(v, g, a) ==
    {set_node("SizeSetter", v, g, a), set_from("SizeSetter", v, g, a)}
    \cup (IF Len(IdsOfKind("EmptyLatentImage", g)) = 1
          THEN {set("SizeSetter", v, g)} ELSE {})

\* C9: zero means unspecified. On an EmptyLatentImage with populated width
\* and height, a SizeSetter carrying (0, h), h > 0, changes only the height,
\* to h; carrying (w, 0), w > 0, only the width, to w; carrying (0, 0),
\* neither.
C9_ZeroMeansUnspecified ==
    \A a \in SizedIds(prompt) :
        LET i == get_node_by_id_mut(prompt, a)[1]
        IN  /\ \A h \in Dims \ {0} : \A r \in SizeCalls(<<0, h>>, prompt, a) :
                  r.res = "Ok" /\ r.prompt = [prompt EXCEPT ![i].height = Some(h)]
            /\ \A w \in Dims \ {0} : \A r \in SizeCalls(<<w, 0>>, prompt, a) :
                  r.res = "Ok" /\ r.prompt = [prompt EXCEPT ![i].width = Some(w)]
            /\ \A r \in SizeCalls(<<0, 0>>, prompt, a) :
                  r.res = "Ok" /\ r.prompt = prompt

\* An EmptyLatentImage whose height has been written while its width is the
\* one it was built with, after a successful call.
C9_Witness ==
    /\ result = "Ok"
    /\ \E a \in SizedIds(prompt) : \E h \in Dims \ {0} :
          /\ NodeAt(prompt, a).width = Some(InitDim)
          /\ NodeAt(prompt, a).height = Some(h)
          /\ set_node("SizeSetter", <<0, h>>, prompt, a).prompt = prompt

\* C10: idempotence. For every setter, carried value and graph, and each of
\* set, set_from and set_node, the same call made twice in a row has the same
\* outcome both times and leaves the graph as the first call left it.
C10_Idempotence ==
    \A S \in Setters : \A v \in ValuesOf(S) : \A m \in Modes : \A a \in ArgsOf(m) :
        LET r1 == Call(S, v, m, a, prompt)
            r2 == Call(S, v, m, a, r1.prompt)
        IN  r2.res = r1.res /\ r2.prompt = r1.prompt

\* A state a successful write has produced, in which the call that produces
\* it succeeds again and changes nothing.
C10_Witness ==
    /\ result = "Ok"
    /\ \E a \in NodeIds :
          /\ IsText(prompt, a)
          /\ NodeAt(prompt, a).text = Some("dog")
          /\ LET r == set_node("PromptSetter", "dog", prompt, a)
             IN  r.res = "Ok" /\ r.prompt = prompt

\* The link fields and the value fields of a node.
LinkFields == {"positive", "negative"}
ValueFields == {"text", "ckpt_name", "width", "height", "seed", "noise_seed"}

\* Graph h has the structure of graph g: the same node ids in the same
\* insertion order, every node of the same kind, every link naming the same
\* target, and every value field that is unset in g unset in h.
SameStructure(g, h) ==
    /\ Len(h) = Len(g)
    /\ \A i \in 1..Len(g) :
          /\ h[i].id = g[i].id
          /\ h[i].class_type = g[i].class_type
          /\ \A f \in LinkFields : h[i][f] = g[i][f]
          /\ \A f \in ValueFields : g[i][f] = None => h[i][f] = None

\* C11: structure preservation. Every call of set, set_from, set_node (and
\* set_value) of every setter, successful or failed, leaves the graph with the
\* same node ids in the same insertion order, every node of the same kind,
\* every link naming the same target and every unset value field still unset;
\* only populated value fields may differ. Holding at every step, it holds
\* after every finite sequence of calls.
C11_StructurePreservation == [][SameStructure(prompt, prompt')]_vars

\* A graph several calls have acted on: two text nodes hold a written text,
\* and the last call, on a sampler whose seed fields are unset, has failed;
\* the sampler's links still name nodes of the graph.
C11_Witness ==
    /\ result = "Err"
    /\ Len(prompt) = 3
    /\ Cardinality({ i \in 1..3 : prompt[i].text = Some("dog") }) = 2
    /\ \E i \in 1..3 :
          /\ prompt[i].class_type \in Samplers
          /\ prompt[i].seed = None /\ prompt[i].noise_seed = None
          /\ HasId(prompt, node_id(prompt[i].positive))
          /\ HasId(prompt, node_id(prompt[i].negative))
          /\ set_node("SeedSetter", InitSeed, prompt, prompt[i].id).res = "Err"
          /\ set_node("SeedSetter", InitSeed, prompt, prompt[i].id).prompt = prompt

====
